---- MODULE Spec2Model ----
(***************************************************************************)
(* Memory-match backend: the Flask handlers of backend/app.py over the     *)
(* users and game_results tables of backend/models.py, and the credential  *)
(* service of backend/auth.py.                                             *)
(*                                                                         *)
(* Strings the code inspects (emails, usernames, passwords) are sequences  *)
(* of one-character strings, so that emptiness, length and the e-mail      *)
(* pattern are computed and not assumed.  A stored password hash is the    *)
(* sequence of its "$"-separated fields, a hash method the sequence of its *)
(* ":"-separated fields.  Time is counted in ticks, TicksPerSecond ticks   *)
(* to the second; a JWT carries whole seconds.                             *)
(***************************************************************************)
EXTENDS Integers, Sequences, FiniteSets, TLC

VARIABLES
    users,        \* table users: rows in insertion order, row i has id i
    results,      \* table game_results: rows in insertion order
    pc,           \* per request thread: where its register() call stands
    req,          \* per request thread: the JSON body of its register() call
    resp,         \* the response of the handler that returned last
    now,          \* datetime.utcnow(), in ticks
    issued,       \* tokens generate_jwt has returned, each with its issue time
    hashed        \* hash_password calls made directly: password, salt drawn, hash

vars == <<users, results, pc, req, resp, now, issued, hashed>>

----------------------------------------------------------------------------
(* Bounds of the model *)

MaxClock == 1          \* the store specification stops the clock here
MaxResults == 3        \* rows of game_results
MaxTokens == 2         \* tokens issued in the token specification
MaxHashed == 2         \* hashes made in the password specification
TicksPerSecond == 2    \* resolution of the clock below one second
SlackTicks == 1        \* how far the token clock runs past one expiry period

(* Program constants *)

JWT_EXPIRATION_DAYS == 7
SecondsPerDay == 86400
MinPasswordLength == 6
RoundScale == 100

JWT_SECRET == "your-secret-key-change-in-production"
JWT_ALGORITHM == "HS256"

Threads == {"t1", "t2"}

----------------------------------------------------------------------------
(* Strings *)

Lower == {"a","b","c","d","e","f","g","h","i","j","k","l","m",
          "n","o","p","q","r","s","t","u","v","w","x","y","z"}
Upper == {"A","B","C","D","E","F","G","H","I","J","K","L","M",
          "N","O","P","Q","R","S","T","U","V","W","X","Y","Z"}
Digit == {"0","1","2","3","4","5","6","7","8","9"}
Alpha == Lower \cup Upper
LocalChars == Alpha \cup Digit \cup {".", "_", "%", "+", "-"}
DomainChars == Alpha \cup Digit \cup {".", "-"}

\* Python truthiness of a str: `not s` is true of the empty string (and of None,
\* which data.get returns for an absent key and is modelled as the empty string).
Falsy(s) == Len(s) = 0

\* re.match(r'^[a-zA-Z0-9._%+-]+@[a-zA-Z0-9.-]+\.[a-zA-Z]{2,}$', email):
\* anchored at the start; "$" matches at the end or before one trailing newline.
MatchesEmailRegex(e) ==
    \E at \in 1..Len(e), dot \in 1..Len(e), end \in {Len(e) - 1, Len(e)} :
        /\ 1 < at /\ at + 1 < dot /\ dot + 2 <= end
        /\ e[at] = "@"
        /\ e[dot] = "."
        /\ end = Len(e) - 1 => e[Len(e)] = "\n"
        /\ \A i \in 1..(at - 1) : e[i] \in LocalChars
        /\ \A i \in (at + 1)..(dot - 1) : e[i] \in DomainChars
        /\ \A i \in (dot + 1)..end : e[i] \in Alpha

----------------------------------------------------------------------------
(* Password hashing: werkzeug.security behind AuthService *)

DefaultMethod == <<"scrypt", "32768", "8", "1">>
Numeric == {"1", "8", "32768", "600000", "1000"}

\* The key-derivation function, idealised as collision free: the digest is
\* determined by, and determines, the method, the salt and the password.
Digest(method, salt, password) == <<method, salt, password>>

\* _hash_internal accepts scrypt (no argument or three integers) and pbkdf2
\* (at most a hash name and an integer); anything else raises ValueError.
MethodAccepted(method) ==
    /\ Len(method) >= 1
    /\ \/ /\ method[1] = "scrypt"
          /\ \/ Len(method) = 1
             \/ Len(method) = 4 /\ \A i \in 2..4 : method[i] \in Numeric
       \/ /\ method[1] = "pbkdf2"
          /\ Len(method) <= 3
          /\ Len(method) = 3 => method[3] \in Numeric

\* hash_password(password) with the salt generate_password_hash drew:
\* "method$salt$digest".
hash_password(password, salt) ==
    <<DefaultMethod, salt, Digest(DefaultMethod, salt, password)>>

\* verify_password(password_hash, password): "true", "false", or "raise" when
\* check_password_hash lets _hash_internal's ValueError escape.
\* pwhash.split("$", 2) gives fewer than three fields: False.  Otherwise the
\* third field is everything after the second "$".
verify_password(pwhash, password) ==
    IF Len(pwhash) < 3 THEN "false"
    ELSE LET method  == pwhash[1]
             salt    == pwhash[2]
             hashval == SubSeq(pwhash, 3, Len(pwhash))
         IN  IF ~MethodAccepted(method) THEN "raise"
             ELSE IF hashval = <<Digest(method, salt, password)>> THEN "true"
             ELSE "false"

----------------------------------------------------------------------------
(* Tokens: PyJWT behind AuthService *)

ExpirySeconds == JWT_EXPIRATION_DAYS * SecondsPerDay
ExpiryTicks == ExpirySeconds * TicksPerSecond

\* HMAC-SHA256 over the payload, idealised as unforgeable: only the holder of
\* the key produces the signature of a payload.
HS256(user_id, exp, iat, key) == <<key, user_id, exp, iat>>

NoToken == [wellformed |-> FALSE, user_id |-> 0, exp |-> 0, iat |-> 0, sig |-> <<>>]

generate_jwt_SixDays(user_id, t) ==
    LET iat == t \div TicksPerSecond
        exp == t \div TicksPerSecond + (JWT_EXPIRATION_DAYS - 1) * SecondsPerDay
    IN  [wellformed |-> TRUE, user_id |-> user_id, exp |-> exp, iat |-> iat,
         sig |-> HS256(user_id, exp, iat, JWT_SECRET)]

\* generate_jwt(user_id) at time t: jwt.encode turns the datetimes exp and iat
\* into whole seconds (timegm of utctimetuple drops the microseconds).
generate_jwt(user_id, t) ==
    LET iat == t \div TicksPerSecond
        exp == t \div TicksPerSecond + ExpirySeconds
    IN  [wellformed |-> TRUE, user_id |-> user_id, exp |-> exp, iat |-> iat,
         sig |-> HS256(user_id, exp, iat, JWT_SECRET)]

Verified(kind, user_id) == [kind |-> kind, user_id |-> user_id]

verify_jwt_ExpiryFirst(token, t) ==
    IF ~token.wellformed THEN Verified("invalid", 0)
    ELSE IF token.exp * TicksPerSecond <= t THEN Verified("expired", 0)
    ELSE IF token.sig # HS256(token.user_id, token.exp, token.iat, JWT_SECRET)
         THEN Verified("invalid", 0)
    ELSE Verified("ok", token.user_id)

\* verify_jwt(token) at time t.  jwt.decode checks the segments, then the
\* signature, then the claims: iat in the future is ImmatureSignatureError
\* (an InvalidTokenError), exp <= now is ExpiredSignatureError.  The handler
\* order maps ExpiredSignatureError to 'Token expired' and every other
\* InvalidTokenError to 'Invalid token'.  kind "ok" returns payload['user_id'].
verify_jwt(token, t) ==
    IF ~token.wellformed THEN Verified("invalid", 0)
    ELSE IF token.sig # HS256(token.user_id, token.exp, token.iat, JWT_SECRET)
         THEN Verified("invalid", 0)
    ELSE IF token.iat * TicksPerSecond > t THEN Verified("invalid", 0)
    ELSE IF token.exp * TicksPerSecond <= t THEN Verified("expired", 0)
    ELSE Verified("ok", token.user_id)

VerifyMessage(kind) ==
    IF kind = "expired" THEN "Token expired"
    ELSE IF kind = "invalid" THEN "Invalid token"
    ELSE ""

----------------------------------------------------------------------------
(* Statistics: the aggregation inside get_user_stats *)

ZeroStats ==
    [total_games |-> 0, average_score |-> 0, average_moves |-> 0,
     average_time |-> 0, best_score |-> 0, total_time_played |-> 0]

\* sum(r.<field> for r in results): left to right; Python ints do not overflow.
RECURSIVE SumField(_, _)
SumField(rows, field) ==
    IF rows = <<>> THEN 0 ELSE Head(rows)[field] + SumField(Tail(rows), field)

BestFrom_Last(rows, best) ==
    IF rows = <<>> THEN best ELSE rows[Len(rows)].score

\* max(r.score for r in results): the first item, replaced by each later item
\* that is strictly greater.
RECURSIVE BestFrom(_, _)
BestFrom(rows, best) ==
    IF rows = <<>> THEN best
    ELSE BestFrom(Tail(rows), IF Head(rows).score > best THEN Head(rows).score ELSE best)

Round2_Truncate(total, n) == (RoundScale * total) \div n

\* round(total / n, 2), in hundredths.  The quotient is rounded to the nearest
\* hundredth.  A quotient exactly half way between two hundredths needs n to be
\* a multiple of 8; Python then rounds the double nearest to the quotient, which
\* for the exactly representable quotients (odd eighths) is round-half-to-even.
Round2(total, n) ==
    LET q == (RoundScale * total) \div n
        r == (RoundScale * total) % n
    IN  IF 2 * r < n THEN q
        ELSE IF 2 * r > n THEN q + 1
        ELSE IF q % 2 = 0 THEN q ELSE q + 1

\* Lines 239-265 of get_user_stats on the rows the query returned.
compute_stats(rows) ==
    IF rows = <<>> THEN ZeroStats
    ELSE LET total_games == Len(rows)
             total_score == SumField(rows, "score")
             total_moves == SumField(rows, "moves")
             total_time  == SumField(rows, "time_taken")
             best_score  == BestFrom(Tail(rows), Head(rows).score)
         IN  [total_games       |-> total_games,
              average_score     |-> Round2(total_score, total_games),
              average_moves     |-> Round2(total_moves, total_games),
              average_time      |-> Round2(total_time, total_games),
              best_score        |-> best_score,
              total_time_played |-> total_time]

----------------------------------------------------------------------------
(* The tables *)

\* User.query.filter_by(email=email).first(): the id of the row, 0 for None.
FindByEmail_None(us, email) == 0

FindByEmail(us, email) ==
    IF \E i \in 1..Len(us) : us[i].email = email
    THEN CHOOSE i \in 1..Len(us) :
             /\ us[i].email = email
             /\ \A j \in 1..(i - 1) : us[j].email # email
    ELSE 0

\* User.query.filter_by(username=username).first()
FindByUsername(us, username) ==
    IF \E i \in 1..Len(us) : us[i].username = username
    THEN CHOOSE i \in 1..Len(us) :
             /\ us[i].username = username
             /\ \A j \in 1..(i - 1) : us[j].username # username
    ELSE 0

\* User.query.get(user_id)
GetUser(us, user_id) == IF user_id \in 1..Len(us) THEN user_id ELSE 0

UniqueViolation_Unconstrained(us, email, username) == FALSE

\* unique=True on users.username and users.email: the INSERT fails with
\* IntegrityError when another row holds either value.
UniqueViolation(us, email, username) ==
    \E i \in 1..Len(us) : us[i].email = email \/ us[i].username = username

\* GameResult.query.filter_by(user_id=user_id): the matching rows.
ResultsOf(rs, user_id) == {rs[i] : i \in {j \in 1..Len(rs) : rs[j].user_id = user_id}}

\* .all() without ORDER BY: the rows in whatever order the database returns.
Orders(S) ==
    {o \in [1..Cardinality(S) -> S] : \A i, j \in 1..Cardinality(S) : i # j => o[i] # o[j]}

\* dict.get(key, default)
Get(data, key, default) == IF key \in DOMAIN data THEN data[key] ELSE default

----------------------------------------------------------------------------
(* Responses *)

Reply(op, status, error) ==
    [op |-> op, status |-> status, error |-> error, hasToken |-> FALSE,
     token |-> NoToken, user |-> 0, stats |-> ZeroStats,
     pwhash |-> <<>>, password |-> <<>>]

ReplyToken(op, status, user, token) ==
    [Reply(op, status, "") EXCEPT !.hasToken = TRUE, !.token = token, !.user = user]

NoRequest == [email |-> <<>>, username |-> <<>>, password |-> <<>>]

----------------------------------------------------------------------------
(* Handlers *)

Idle(t) == pc[t] = "idle"

\* register(), lines 37-54: the required fields, the e-mail pattern and the
\* e-mail lookup.  data.get of an absent key is None, here the empty string.
\* The reply, or Continue when the handler goes on to the username lookup.
Continue == Reply("register", 0, "")

RegisterValidate(us, data) ==
    IF Falsy(data.email) \/ Falsy(data.username) \/ Falsy(data.password)
    THEN Reply("register", 400, "Email, username, and password are required")
    ELSE IF ~MatchesEmailRegex(data.email)
    THEN Reply("register", 400, "Invalid email format")
    ELSE IF FindByEmail(us, data.email) # 0
    THEN Reply("register", 409, "Email already registered")
    ELSE Continue

RegisterStart(t, data) ==
    /\ Idle(t)
    /\ UNCHANGED <<users, results, now, issued, hashed>>
    /\ LET r == RegisterValidate(users, data)
       IN  IF r # Continue
           THEN /\ resp' = r
                /\ UNCHANGED <<pc, req>>
           ELSE /\ pc' = [pc EXCEPT ![t] = "check_username"]
                /\ req' = [req EXCEPT ![t] = data]
                /\ UNCHANGED resp

\* register(), lines 56-61: the username lookup and the password length.
RegisterCheckUsername(t) ==
    /\ pc[t] = "check_username"
    /\ UNCHANGED <<users, results, now, issued, hashed>>
    /\ IF FindByUsername(users, req[t].username) # 0
       THEN /\ resp' = Reply("register", 409, "Username already taken")
            /\ pc' = [pc EXCEPT ![t] = "idle"]
            /\ req' = [req EXCEPT ![t] = NoRequest]
       ELSE IF Len(req[t].password) < MinPasswordLength
       THEN /\ resp' = Reply("register", 400, "Password must be at least 6 characters")
            /\ pc' = [pc EXCEPT ![t] = "idle"]
            /\ req' = [req EXCEPT ![t] = NoRequest]
       ELSE /\ pc' = [pc EXCEPT ![t] = "insert"]
            /\ UNCHANGED <<req, resp>>

\* register(), lines 63-86: hash, INSERT and commit, token.  The unique
\* constraints decide at commit; IntegrityError is caught and rolled back.
RegisterInsert(t, salt) ==
    /\ pc[t] = "insert"
    /\ UNCHANGED <<results, now, issued, hashed>>
    /\ pc' = [pc EXCEPT ![t] = "idle"]
    /\ req' = [req EXCEPT ![t] = NoRequest]
    /\ IF UniqueViolation(users, req[t].email, req[t].username)
       THEN /\ resp' = Reply("register", 500, "Registration failed: IntegrityError")
            /\ UNCHANGED users
       ELSE LET id == Len(users) + 1
            IN  /\ users' = Append(users,
                       [id            |-> id,
                        username      |-> req[t].username,
                        email         |-> req[t].email,
                        password_hash |-> hash_password(req[t].password, salt),
                        created_at    |-> now,
                        last_login    |-> now])
                /\ resp' = ReplyToken("register", 201, id, generate_jwt(id, now))

LoginReply_Enumerable(us, data, t) ==
    IF Falsy(data.email) \/ Falsy(data.password)
    THEN Reply("login", 400, "Email and password are required")
    ELSE LET user == FindByEmail(us, data.email)
         IN  IF user = 0 THEN Reply("login", 404, "User not found")
             ELSE LET v == verify_password(us[user].password_hash, data.password)
                  IN  IF v = "raise" THEN Reply("login", 500, "Login failed: ValueError")
                      ELSE IF v = "false" THEN Reply("login", 401, "Invalid email or password")
                      ELSE ReplyToken("login", 200, user, generate_jwt(user, t))

\* login(): the response, as a function of the table, the body and the time.
LoginReply(us, data, t) ==
    IF Falsy(data.email) \/ Falsy(data.password)
    THEN Reply("login", 400, "Email and password are required")
    ELSE LET user == FindByEmail(us, data.email)
         IN  IF user = 0 THEN Reply("login", 401, "Invalid email or password")
             ELSE LET v == verify_password(us[user].password_hash, data.password)
                  IN  IF v = "raise" THEN Reply("login", 500, "Login failed: ValueError")
                      ELSE IF v = "false" THEN Reply("login", 401, "Invalid email or password")
                      ELSE ReplyToken("login", 200, user, generate_jwt(user, t))

\* login(): last_login is written and committed only on the 200 path.
Login(data) ==
    /\ UNCHANGED <<results, pc, req, now, issued, hashed>>
    /\ resp' = LoginReply(users, data, now)
    /\ users' = IF resp'.status = 200
                THEN [users EXCEPT ![resp'.user].last_login = now]
                ELSE users

\* create_user().  User(username=..., auth_provider='username') names a keyword
\* that is no column of User: the declarative constructor raises TypeError
\* before anything is added to the session, and Flask answers 500.
CreateUser(data) ==
    /\ UNCHANGED <<users, results, pc, req, now, issued, hashed>>
    /\ IF "username" \notin DOMAIN data
       THEN resp' = Reply("create_user", 400, "Username is required")
       ELSE LET existing_user == FindByUsername(users, data.username)
            IN  IF existing_user # 0
                THEN resp' = [Reply("create_user", 200, "") EXCEPT !.user = existing_user]
                ELSE resp' = Reply("create_user", 500, "Internal Server Error")

RequiredFields == <<"user_id", "score", "moves", "time_taken">>
RequiredMessage == <<"user_id is required", "score is required",
                     "moves is required", "time_taken is required">>

\* save_result().  The required fields are looked for in order; the row is
\* inserted with no lookup of the user.  SQLite checks a foreign key only under
\* PRAGMA foreign_keys=ON, which nothing here sets.
SaveResult(data) ==
    /\ UNCHANGED <<users, pc, req, now, issued, hashed>>
    /\ IF \E i \in 1..Len(RequiredFields) : RequiredFields[i] \notin DOMAIN data
       THEN LET i == CHOOSE k \in 1..Len(RequiredFields) :
                         /\ RequiredFields[k] \notin DOMAIN data
                         /\ \A j \in 1..(k - 1) : RequiredFields[j] \in DOMAIN data
            IN  /\ resp' = Reply("save_result", 400, RequiredMessage[i])
                /\ UNCHANGED results
       ELSE /\ Len(results) < MaxResults
            /\ results' = Append(results,
                   [id         |-> Len(results) + 1,
                    user_id    |-> data.user_id,
                    score      |-> data.score,
                    moves      |-> data.moves,
                    time_taken |-> data.time_taken,
                    difficulty |-> Get(data, "difficulty", "medium"),
                    grid_size  |-> Get(data, "grid_size", "4x4"),
                    completed  |-> Get(data, "completed", TRUE),
                    played_at  |-> now])
            /\ resp' = [Reply("save_result", 201, "") EXCEPT !.user = data.user_id]

\* get_user_stats(user_id), the query answering with its rows in order `rows`.
GetUserStats(user_id, rows) ==
    /\ UNCHANGED <<users, results, pc, req, now, issued, hashed>>
    /\ IF GetUser(users, user_id) = 0
       THEN resp' = Reply("get_user_stats", 404, "User not found")
       ELSE /\ rows \in Orders(ResultsOf(results, user_id))
            /\ resp' = [Reply("get_user_stats", 200, "") EXCEPT
                           !.user = user_id, !.stats = compute_stats(rows)]

\* The wall clock of the store specification.
Tick ==
    /\ now < MaxClock
    /\ now' = now + 1
    /\ UNCHANGED <<users, results, pc, req, resp, issued, hashed>>

----------------------------------------------------------------------------
(* The credential service called directly *)

\* The instants at which the token specification looks at the clock: around
\* the issue of a token and around its expiry.
TokenTimes ==
    (0..SlackTicks) \cup ((ExpiryTicks - SlackTicks)..(ExpiryTicks + 2 * SlackTicks))

\* Time passes.
Advance(t) ==
    /\ t \in TokenTimes /\ t > now
    /\ now' = t
    /\ UNCHANGED <<users, results, pc, req, resp, issued, hashed>>

\* AuthService.generate_jwt(user_id), called at the current time.
GenerateJwt(user_id) ==
    /\ Cardinality(issued) < MaxTokens
    /\ issued' = issued \cup
           {[user_id |-> user_id, token |-> generate_jwt(user_id, now), at |-> now]}
    /\ resp' = ReplyToken("generate_jwt", 0, user_id, generate_jwt(user_id, now))
    /\ UNCHANGED <<users, results, pc, req, now, hashed>>

\* What a holder of an issued token can present without the key: the token
\* with another user_id, with a later exp, with a signature made under another
\* key (over the same or over a changed payload), or cut short.
Tampered(token) ==
    { [token EXCEPT !.user_id = @ + 1],
      [token EXCEPT !.exp = @ + ExpirySeconds],
      [token EXCEPT !.sig = HS256(token.user_id, token.exp, token.iat, "attacker-key")],
      [token EXCEPT !.exp = @ + ExpirySeconds,
                    !.sig = HS256(token.user_id, token.exp + ExpirySeconds, token.iat,
                                  "attacker-key")],
      [token EXCEPT !.wellformed = FALSE] }

IssuedTokens == {i.token : i \in issued}
Presentable == IssuedTokens \cup UNION {Tampered(k) : k \in IssuedTokens} \cup {NoToken}

\* AuthService.verify_jwt(token), called at the current time: the user_id, or
\* the message of the exception raised.
VerifyJwt(token) ==
    /\ token \in Presentable
    /\ LET v == verify_jwt(token, now)
       IN  resp' = [Reply("verify_jwt", 0, VerifyMessage(v.kind)) EXCEPT
                      !.user = v.user_id, !.token = token, !.hasToken = TRUE]
    /\ UNCHANGED <<users, results, pc, req, now, issued, hashed>>

\* AuthService.hash_password(password), generate_password_hash drawing `salt`.
HashPassword(password, salt) ==
    /\ Cardinality(hashed) < MaxHashed
    /\ hashed' = hashed \cup
           {[password |-> password, salt |-> salt, hash |-> hash_password(password, salt)]}
    /\ resp' = Reply("hash_password", 0, "")
    /\ UNCHANGED <<users, results, pc, req, now, issued>>

\* AuthService.verify_password(password_hash, password): the outcome is kept
\* in the error field of the response ("true", "false", "raise").
VerifyPassword(pwhash, password) ==
    /\ resp' = [Reply("verify_password", 0, verify_password(pwhash, password)) EXCEPT
                    !.pwhash = pwhash, !.password = password]
    /\ UNCHANGED <<users, results, pc, req, now, issued, hashed>>

----------------------------------------------------------------------------
(* Inputs *)

EmailA == <<"a", "@", "b", ".", "c", "o", "m">>
EmailC == <<"c", "@", "d", ".", "i", "o">>
EmailBad == <<"a", "@", "b">>
Username1 == <<"a", "n", "n">>
Username2 == <<"b", "o", "b">>
PwGood == <<"s", "e", "c", "r", "e", "t">>
PwOther == <<"h", "u", "n", "t", "e", "r", "2">>
PwShort == <<"a", "b", "c">>

Emails == {<<>>, EmailBad, EmailA, EmailC}
Usernames == {<<>>, Username1, Username2}
Passwords == {<<>>, PwShort, PwGood, PwOther}
Salts == {"s1", "s2"}
\* The salt is read by verify_password alone; the accounts draw from one, the
\* password specification from all.
AccountSalts == {"s1"}

RegisterInputs ==
    [email : Emails, username : Usernames, password : {<<>>, PwShort, PwGood}]
LoginInputs == [email : Emails, password : {<<>>, PwShort, PwGood}]
CreateInputs ==
    {[username |-> u] : u \in Usernames} \cup {[name |-> Username1]}

\* Stored hashes that hash_password did not make: too few fields, an unknown
\* method, method parameters that are no integers, a digest with a "$" in it.
MalformedHashes ==
    { <<>>,
      <<DefaultMethod, "s1">>,
      <<<<"bogus">>, "s1", Digest(<<"bogus">>, "s1", PwGood)>>,
      <<<<"pbkdf2", "sha256", "xyz">>, "s1", Digest(DefaultMethod, "s1", PwGood)>>,
      <<DefaultMethod, "s1", Digest(DefaultMethod, "s1", PwGood), <<>>>> }

UserIds == 1..2
Scores == {<<0, 1, 0>>, <<1, 2, 3>>, <<2, 1, 7>>}
ResultInputs ==
    {[user_id |-> u, score |-> s[1], moves |-> s[2], time_taken |-> s[3]] :
         u \in UserIds, s \in Scores}
    \cup {[user_id |-> 1, score |-> 2, moves |-> 2, time_taken |-> 7, difficulty |-> "hard",
           grid_size |-> "6x6", completed |-> FALSE]}
    \cup {[user_id |-> 1, score |-> 0, time_taken |-> 0]}

----------------------------------------------------------------------------
(* Specifications *)

Init ==
    /\ users = <<>>
    /\ results = <<>>
    /\ pc = [t \in Threads |-> "idle"]
    /\ req = [t \in Threads |-> NoRequest]
    /\ resp = Reply("none", 0, "")
    /\ now = 0
    /\ issued = {}
    /\ hashed = {}

\* Accounts: concurrent registrations, logins, user creation, the clock.
\* Nothing these handlers decide reads the salt: it is drawn from AccountSalts.
Next ==
    \/ \E t \in Threads, data \in RegisterInputs : RegisterStart(t, data)
    \/ \E t \in Threads : RegisterCheckUsername(t)
    \/ \E t \in Threads, salt \in AccountSalts : RegisterInsert(t, salt)
    \/ \E data \in LoginInputs : Login(data)
    \/ \E data \in CreateInputs : CreateUser(data)
    \/ Tick

Spec == Init /\ [][Next]_vars

\* Results: one registration, user creation, saving results, statistics.
NextResults ==
    \/ RegisterStart("t1", [email |-> EmailA, username |-> Username1, password |-> PwGood])
    \/ RegisterCheckUsername("t1")
    \/ RegisterInsert("t1", "s1")
    \/ \E data \in CreateInputs : CreateUser(data)
    \/ \E data \in ResultInputs : SaveResult(data)
    \/ \E u \in UserIds : \E rows \in Orders(ResultsOf(results, u)) : GetUserStats(u, rows)

SpecResults == Init /\ [][NextResults]_vars

\* Tokens: generate_jwt and verify_jwt as time passes.
NextToken ==
    \/ \E u \in UserIds : GenerateJwt(u)
    \/ \E t \in TokenTimes : Advance(t)
    \/ \E token \in Presentable : VerifyJwt(token)

SpecToken == Init /\ [][NextToken]_vars

\* Passwords: hash_password and verify_password.
NextPassword ==
    \/ \E p \in Passwords, salt \in Salts : HashPassword(p, salt)
    \/ \E h \in {x.hash : x \in hashed} \cup MalformedHashes, p \in Passwords :
           VerifyPassword(h, p)

SpecPassword == Init /\ [][NextPassword]_vars

----------------------------------------------------------------------------
(* Claims checked under Spec *)

\* An earlier register call with this e-mail (username) has succeeded: users
\* are inserted by register alone and never deleted.
Registered(email) == \E i \in 1..Len(users) : users[i].email = email
Taken(username) == \E i \in 1..Len(users) : users[i].username = username
WellFormedRegistered ==
    {e \in {users[i].email : i \in 1..Len(users)} : MatchesEmailRegex(e)}

\* C1: in every reachable state of the user store, under any interleaving of
\* register and create_user calls, no two distinct User records share an id,
\* a username or an email.
C1_UniqueUsers ==
    \A i, j \in 1..Len(users) :
        i # j => /\ users[i].id # users[j].id
                 /\ users[i].username # users[j].username
                 /\ users[i].email # users[j].email

\* C1 witness: two registrations raced past the lookups with the same e-mail
\* or username and the second commit was refused, with two users stored.
C1_Witness ==
    /\ resp.op = "register" /\ resp.status = 500
    /\ Len(users) = 2

\* C2 as stated: once an e-mail is registered, every later register call with
\* that e-mail, whatever username and password it carries, is answered 409 and
\* leaves the tables unchanged.
C2_AnyBodyConflicts ==
    [][\A e \in WellFormedRegistered : \A t \in Threads, data \in RegisterInputs :
          (/\ data.email = e
           /\ Idle(t)
           /\ RegisterStart(t, data))
          => /\ resp'.status = 409
             /\ users' = users /\ results' = results]_vars

\* C2 amended: once an e-mail is registered, every later register call with
\* that e-mail and a non-empty username and password is answered 409 'Email
\* already registered', whatever that username and password are; a call with
\* an empty or missing username or password is answered 400.  A register step
\* that answers 400 or 409 leaves the tables unchanged.
C2_RegisteredEmailConflicts ==
    /\ [](\A e \in WellFormedRegistered : \A data \in RegisterInputs :
            data.email = e =>
              RegisterValidate(users, data) =
                IF Falsy(data.username) \/ Falsy(data.password)
                THEN Reply("register", 400, "Email, username, and password are required")
                ELSE Reply("register", 409, "Email already registered"))
    /\ [][(resp'.op = "register" /\ resp'.status \in {400, 409})
            => (users' = users /\ results' = results)]_vars

\* C2 witness: a register call was answered 409 for its e-mail while the
\* username it carried was free and its password too short to be accepted.
C2_Witness ==
    /\ resp = Reply("register", 409, "Email already registered")
    /\ Len(users) = 1
    /\ \A t \in Threads : pc[t] = "idle"

\* The stored hash of the user with this e-mail verifies against the password.
PasswordVerifies(data) ==
    /\ Registered(data.email)
    /\ \E i \in 1..Len(users) :
           /\ users[i].email = data.email
           /\ verify_password(users[i].password_hash, data.password) = "true"

\* C9: a login attempt naming an e-mail of no user and one naming a registered
\* e-mail with a wrong password get the same response (status and message) and
\* no token; a login is answered 200 with a token only when the password
\* verified against the hash of the user with that e-mail; a login step that
\* is not answered 200 leaves the user table, last_login included, unchanged,
\* and one answered 200 changes the last_login of that user and nothing else.
C9_LoginIndistinguishable ==
    /\ [](\A d2 \in LoginInputs :
            (Registered(d2.email) /\ ~PasswordVerifies(d2))
            => \A d1 \in LoginInputs :
                 (~Falsy(d1.email) /\ ~Registered(d1.email) /\ d1.password = d2.password)
                 => /\ LoginReply(users, d1, now) = LoginReply(users, d2, now)
                    /\ ~LoginReply(users, d1, now).hasToken)
    /\ [](\A data \in LoginInputs :
            LET r == LoginReply(users, data, now)
            IN  /\ (r.status = 200 \/ r.hasToken)
                     => (PasswordVerifies(data) /\ users[r.user].email = data.email)
                /\ (~Falsy(data.email) /\ ~Falsy(data.password) /\ ~PasswordVerifies(data))
                     => r = Reply("login", 401, "Invalid email or password"))
    /\ [][(resp' # resp /\ resp'.op = "login")
            => IF resp'.status = 200
               THEN users' = [users EXCEPT ![resp'.user].last_login = now]
               ELSE users' = users]_vars

\* C9 witness: a login was refused with 401 while a user who had logged in
\* after registering is stored.
C9_Witness ==
    /\ resp = Reply("login", 401, "Invalid email or password")
    /\ \E i \in 1..Len(users) : users[i].last_login > users[i].created_at

\* C10: create_user is get-or-create on username.  With a username no user
\* has it stores exactly one new user with that username and answers 201; with
\* a username that exists it answers 200 with that user and leaves the user
\* table unchanged.
C10_GetOrCreate ==
    [][resp'.op = "create_user" =>
       \A data \in CreateInputs :
          ("username" \in DOMAIN data /\ CreateUser(data))
          => IF Taken(data.username)
             THEN /\ resp'.status = 200
                  /\ users[resp'.user].username = data.username
                  /\ users' = users
             ELSE /\ resp'.status = 201
                  /\ Len(users') = Len(users) + 1
                  /\ SubSeq(users', 1, Len(users)) = users
                  /\ users'[Len(users')].username = data.username]_vars

----------------------------------------------------------------------------
(* Claims checked under SpecResults *)

\* C3: in every reachable state, after any sequence of register, create_user
\* and save_result calls, every stored GameResult has a user_id equal to the id
\* of exactly one stored User; save_result with a user_id of no user stores
\* nothing.
C3_ResultsReferenceUsers ==
    \A i \in 1..Len(results) :
        Cardinality({j \in 1..Len(users) : users[j].id = results[i].user_id}) = 1

\* The reference definition of the statistics of a set of rows.
Abs(x) == IF x < 0 THEN -x ELSE x

RECURSIVE RefSum(_, _)
RefSum(S, field) ==
    IF S = {} THEN 0
    ELSE LET r == CHOOSE x \in S : TRUE IN r[field] + RefSum(S \ {r}, field)

\* The hundredth nearest to total / n.
RefAverage(S, field) ==
    LET n     == Cardinality(S)
        total == RefSum(S, field)
        vals  == {r[field] : r \in S}
        lo    == CHOOSE v \in vals : \A w \in vals : v <= w
        hi    == CHOOSE v \in vals : \A w \in vals : w <= v
    IN  CHOOSE a \in (RoundScale * lo)..(RoundScale * hi) :
            2 * Abs(RoundScale * total - a * n) <= n

RefStats(S) ==
    IF S = {} THEN ZeroStats
    ELSE [total_games       |-> Cardinality(S),
          average_score     |-> RefAverage(S, "score"),
          average_moves     |-> RefAverage(S, "moves"),
          average_time      |-> RefAverage(S, "time_taken"),
          best_score        |-> CHOOSE m \in {r.score : r \in S} : \A r \in S : r.score <= m,
          total_time_played |-> RefSum(S, "time_taken")]

\* C7: for every collection of a user's results, in whatever order the query
\* returns it, the statistics are the reference ones: all zero for no result,
\* else the count, the maximum score, the exact sum of time_taken and the three
\* averages to the nearest hundredth.  A get_user_stats step answers with them
\* and changes no User or GameResult row.
C7_StatsMatchReference ==
    /\ [](\A u \in UserIds :
            LET reference == RefStats(ResultsOf(results, u))
            IN  \A rows \in Orders(ResultsOf(results, u)) :
                    compute_stats(rows) = reference)
    /\ [][(resp' # resp /\ resp'.op = "get_user_stats")
            => /\ users' = users /\ results' = results
               /\ resp'.status = 200
                    => resp'.stats = RefStats(ResultsOf(results, resp'.user))]_vars

\* C7 witness: statistics were answered for three results whose average
\* score, 2/3, rounds up to 0.67.
C7_Witness ==
    /\ resp.op = "get_user_stats" /\ resp.status = 200
    /\ resp.stats.total_games = 3
    /\ resp.stats.average_score = 67

ValuesOf(row) == <<row.score, row.moves, row.time_taken>>

\* Two sequences of rows hold the same multiset of (score, moves, time_taken).
SameMultiset(o1, o2) ==
    /\ Len(o1) = Len(o2)
    /\ \A i \in 1..Len(o1) :
           Cardinality({j \in 1..Len(o1) : ValuesOf(o1[j]) = ValuesOf(o1[i])})
             = Cardinality({j \in 1..Len(o2) : ValuesOf(o2[j]) = ValuesOf(o1[i])})

\* The rows of a user in the order they were submitted.
Submitted(rs, user_id) == SelectSeq(rs, LAMBDA r : r.user_id = user_id)

\* C8: the statistics depend only on the multiset of results: whatever order
\* the store returns a user's results in, and whatever order the same results
\* were submitted in (here under another user id), the six values are the same.
C8_OrderIrrelevant ==
    \A u1, u2 \in UserIds :
        LET returned  == Orders(ResultsOf(results, u1))
            submitted == Submitted(results, u2)
            expected  == compute_stats(submitted)
        IN  \A o \in returned :
                SameMultiset(o, submitted) => compute_stats(o) = expected

\* C8 witness: statistics were answered for three results of user 1 that differ
\* in score, and the same results were submitted in another order under user 2.
C8_Witness ==
    /\ resp.op = "get_user_stats" /\ resp.status = 200 /\ resp.user = 1
    /\ resp.stats.total_games >= 2
    /\ \E r1, r2 \in ResultsOf(results, 1) : r1.score < r2.score /\ r1.id < r2.id
    /\ \E r1, r2 \in ResultsOf(results, 1) : r1.score < r2.score /\ r1.id > r2.id

----------------------------------------------------------------------------
(* Claims checked under SpecToken *)

\* The first tick at which a token issued at tick `at` is past its exp.
ExpiryTick(at) == (at \div TicksPerSecond + ExpirySeconds) * TicksPerSecond

C5_FailureKinds ==
    /\ VerifyMessage("expired") # VerifyMessage("invalid")
    /\ \A i \in issued :
           now > i.token.exp * TicksPerSecond
           => verify_jwt(i.token, now) = Verified("expired", 0)
    /\ \A k \in IssuedTokens : \A x \in Tampered(k) \cup {NoToken} :
           verify_jwt(x, now) = Verified("invalid", 0)
    /\ \A k \in Presentable : \A t \in TokenTimes :
           (t <= now /\ verify_jwt(k, t).kind = "expired")
           => verify_jwt(k, now) = Verified("expired", 0)
    /\ (resp.op = "verify_jwt" /\ resp.error # "")
           => /\ resp.user = 0
              /\ resp.error = VerifyMessage(verify_jwt(resp.token, now).kind)

\* C5 witness: a token with a changed payload was presented later than its
\* exp and failed as invalid, while the token it was made from fails as expired.
C5_Witness ==
    /\ resp.op = "verify_jwt" /\ resp.error = "Invalid token"
    /\ resp.token.wellformed
    /\ resp.token.exp * TicksPerSecond < now
    /\ \E k \in IssuedTokens :
           /\ resp.token = [k EXCEPT !.user_id = @ + 1]
           /\ verify_jwt(k, now).kind = "expired"

----------------------------------------------------------------------------
(* Claims checked under SpecPassword *)

\* A stored hash that cannot be parsed: fewer than three "$"-separated
\* fields, or a method field that names no method or carries parameters that
\* are no integers.
Unparsable(pwhash) == Len(pwhash) < 3 \/ ~MethodAccepted(pwhash[1])

\* C6: verify_password(hash_password(p), p) is true; verify_password(
\* hash_password(p), q) is false for q other than p; two hash_password(p) calls
\* with different salts give different hashes that both verify; a stored hash
\* that cannot be parsed makes verify_password return false, not raise.
C6_PasswordRoundTrip ==
    /\ \A x \in hashed : verify_password(x.hash, x.password) = "true"
    /\ \A x \in hashed : \A q \in Passwords :
           q # x.password => verify_password(x.hash, q) = "false"
    /\ \A x, y \in hashed :
           (x.password = y.password /\ x.salt # y.salt) => x.hash # y.hash
    /\ (resp.op = "verify_password" /\ Unparsable(resp.pwhash)) => resp.error = "false"

\* The part of C6 that holds: the three statements about hashes hash_password
\* made, and False for a stored hash of fewer than three fields.
C6_RoundTripAndShortHash ==
    /\ \A x \in hashed : verify_password(x.hash, x.password) = "true"
    /\ \A x \in hashed : \A q \in Passwords :
           q # x.password => verify_password(x.hash, q) = "false"
    /\ \A x, y \in hashed :
           (x.password = y.password /\ x.salt # y.salt) => x.hash # y.hash
    /\ (resp.op = "verify_password" /\ Len(resp.pwhash) < 3) => resp.error = "false"

====
